---------------------------- MODULE Spec2Model ----------------------------
(***************************************************************************)
(* Model of formant_shift_praat.py: the command-line front end             *)
(* (__main__, lines 77-97) and formant_shift_praat (lines 19-71).          *)
(*                                                                         *)
(* Python floats are modelled as exact rationals plus the three            *)
(* non-finite values (nan, inf, -inf); rounding of binary floating point   *)
(* is not modelled.  The two Praat commands and the file reader/writer are *)
(* external: what they answer for a run is fixed by the environment        *)
(* (envPitch, envShifted, the disk) and drawn from bounded sets in Init.   *)
(***************************************************************************)
EXTENDS Integers, Sequences, FiniteSets, TLC

\* Longest pitch track the pitch estimator answers with.
MaxFrames == 3
\* Largest number of samples per channel the transformer answers with.
MaxSamples == 2
\* Largest number of channels the transformer answers with.
MaxChannels == 2

(***************************************************************************)
(* Floats                                                                  *)
(***************************************************************************)
Abs(i) == IF i < 0 THEN -i ELSE i

RECURSIVE GCD(_, _)
GCD(a, b) == IF b = 0 THEN a ELSE GCD(b, a % b)

\* The finite float n/d, in lowest terms with a positive denominator.
Fin(n, d) ==
    LET s == IF d < 0 THEN -1 ELSE 1
        g == GCD(Abs(n), Abs(d))
    IN  [k |-> "fin", n |-> (s * n) \div g, d |-> (s * d) \div g]

NaN == [k |-> "nan", n |-> 0, d |-> 1]
PosInf == [k |-> "inf", n |-> 1, d |-> 1]
NegInf == [k |-> "inf", n |-> -1, d |-> 1]

\* np.isfinite
IsFinite(x) == x.k = "fin"

\* -1, 0 or 1; nan has no sign and is never passed here.
Sign(x) == IF x.n < 0 THEN -1 ELSE IF x.n > 0 THEN 1 ELSE 0

\* x < y on floats: False as soon as one side is nan.
Lt(x, y) ==
    IF x.k = "nan" \/ y.k = "nan" THEN FALSE
    ELSE IF x.k = "inf" THEN x.n < 0 /\ ~(y.k = "inf" /\ y.n < 0)
    ELSE IF y.k = "inf" THEN y.n > 0
    ELSE x.n * y.d < y.n * x.d

\* x > 0
GtZero(x) == Lt(Fin(0, 1), x)

\* x >= y
Ge(x, y) == x.k # "nan" /\ y.k # "nan" /\ ~Lt(x, y)

\* x * y
Mul(x, y) ==
    IF x.k = "nan" \/ y.k = "nan" THEN NaN
    ELSE IF x.k = "fin" /\ y.k = "fin" THEN Fin(x.n * y.n, x.d * y.d)
    ELSE IF Sign(x) * Sign(y) = 0 THEN NaN
    ELSE IF Sign(x) * Sign(y) > 0 THEN PosInf ELSE NegInf

\* x + y
Add(x, y) ==
    IF x.k = "nan" \/ y.k = "nan" THEN NaN
    ELSE IF x.k = "fin" /\ y.k = "fin" THEN Fin(x.n * y.d + y.n * x.d, x.d * y.d)
    ELSE IF x.k = "inf" /\ y.k = "inf" THEN (IF x.n = y.n THEN x ELSE NaN)
    ELSE IF x.k = "inf" THEN x ELSE y

\* x / c for an integer c > 0
DivInt(x, c) == IF x.k = "fin" THEN Fin(x.n, x.d * c) ELSE x

RECURSIVE SumSeq(_)
SumSeq(s) == IF s = <<>> THEN Fin(0, 1) ELSE Add(Head(s), SumSeq(Tail(s)))

\* Python's int(x) on a finite float: truncation toward zero.
IntOf(x) == IF x.n < 0 THEN -((-x.n) \div x.d) ELSE x.n \div x.d

(***************************************************************************)
(* Command line values: argparse's type=float is Python's float() applied  *)
(* to the value string.  A value string is a sequence of characters.  The  *)
(* syntax covered: [sign] digits [. digits], [sign] . digits, nan, inf.    *)
(***************************************************************************)
Digits == <<"0", "1", "2", "3", "4", "5", "6", "7", "8", "9">>

IsDigit(c) == \E i \in 1..Len(Digits) : Digits[i] = c

DigitVal(c) == (CHOOSE i \in 1..Len(Digits) : Digits[i] = c) - 1

RECURSIVE DigitsVal(_)
DigitsVal(s) ==
    IF s = <<>> THEN 0
    ELSE DigitsVal(SubSeq(s, 1, Len(s) - 1)) * Len(Digits) + DigitVal(s[Len(s)])

RECURSIVE Pow10(_)
Pow10(e) == IF e = 0 THEN 1 ELSE Len(Digits) * Pow10(e - 1)

\* What float() raises ValueError on.
ParseError == [k |-> "err", n |-> 0, d |-> 1]

ParseUnsigned(s) ==
    LET dots == {i \in 1..Len(s) : s[i] = "."}
        ds   == SelectSeq(s, LAMBDA c : c # ".")
    IN  IF s = <<"n", "a", "n">> THEN NaN
        ELSE IF s = <<"i", "n", "f">> THEN PosInf
        ELSE IF Cardinality(dots) > 1 \/ ds = <<>> THEN ParseError
        ELSE IF \E i \in 1..Len(ds) : ~IsDigit(ds[i]) THEN ParseError
        ELSE Fin(DigitsVal(ds),
                 Pow10(IF dots = {} THEN 0 ELSE Len(s) - (CHOOSE i \in dots : TRUE)))

Negate(x) == IF x.k \in {"fin", "inf"} THEN [x EXCEPT !.n = -x.n] ELSE x

\* float(s)
ParseFloat(s) ==
    IF s # <<>> /\ Head(s) = "-" THEN Negate(ParseUnsigned(Tail(s)))
    ELSE IF s # <<>> /\ Head(s) = "+" THEN ParseUnsigned(Tail(s))
    ELSE ParseUnsigned(s)

(***************************************************************************)
(* Pitch median (lines 46-49)                                              *)
(***************************************************************************)
\* The mask without its np.isfinite half: inf passes.
VoicedPositiveOnly(x) == GtZero(x)

\* The mask of line 47: (f0_values > 0) & np.isfinite(f0_values).
Voiced(x) == GtZero(x) /\ IsFinite(x)

\* Boolean-mask indexing keeps the selected entries in order.
MaskSelect(track) == SelectSeq(track, Voiced)

RECURSIVE Insert(_, _)
Insert(x, s) ==
    IF s = <<>> THEN <<x>>
    ELSE IF Lt(Head(s), x) THEN <<Head(s)>> \o Insert(x, Tail(s))
    ELSE <<x>> \o s

RECURSIVE Sort(_)
Sort(s) == IF s = <<>> THEN <<>> ELSE Insert(Head(s), Sort(Tail(s)))

\* np.median: nan for an empty array or one that holds a nan, else the middle
\* element of the sorted array, or the mean of the two middle elements.
NpMedian(a) ==
    LET n == Len(a)
        s == Sort(a)
    IN  IF n = 0 \/ \E i \in 1..n : a[i].k = "nan" THEN NaN
        ELSE IF n % 2 = 1 THEN s[(n + 1) \div 2]
        ELSE DivInt(Add(s[n \div 2], s[n \div 2 + 1]), 2)

\* Line 48 without its length test: the median of an empty array is nan.
OrigPitchMedianUnguarded(f0_values) == NpMedian(f0_values)

\* Line 48.
OrigPitchMedian(f0_values) ==
    IF Len(f0_values) # 0 THEN NpMedian(f0_values) ELSE Fin(200, 1)

\* Line 49.
NewPitchMedian(orig, pitch_ratio) == Mul(orig, pitch_ratio)

(***************************************************************************)
(* Arrays (lines 64-68).  An array is its shape and its elements in        *)
(* row-major order; a 0-dimensional array has shape <<>> and one element.  *)
(***************************************************************************)
NDim(a) == Len(a.shape)

\* shifted.values is channels x samples; .T is samples x channels.
Transpose(values) ==
    LET c == Len(values)
        n == Len(values[1])
    IN  [shape |-> <<n, c>>,
         data  |-> [j \in 1..(n * c) |-> values[((j - 1) % c) + 1][((j - 1) \div c) + 1]]]

Row(a, i) == [c \in 1..a.shape[2] |-> a.data[(i - 1) * a.shape[2] + c]]

\* The sum over axis 1 where the mean is meant.
SumAxis1(a) ==
    [shape |-> <<a.shape[1]>>,
     data  |-> [i \in 1..a.shape[1] |-> SumSeq(Row(a, i))]]

\* y.mean(axis=1) of a 2-dimensional array.
MeanAxis1(a) ==
    [shape |-> <<a.shape[1]>>,
     data  |-> [i \in 1..a.shape[1] |-> DivInt(SumSeq(Row(a, i)), a.shape[2])]]

\* y.squeeze(): every axis of length 1 is dropped.
Squeeze(a) == [shape |-> SelectSeq(a.shape, LAMBDA d : d # 1), data |-> a.data]

\* Lines 65-68.
ToMono(a) ==
    IF NDim(a) = 2 /\ a.shape[2] > 1 THEN MeanAxis1(a) ELSE Squeeze(a)

(***************************************************************************)
(* State                                                                   *)
(***************************************************************************)
\* Two invocations of the script at most; a single run leaves the second off.
Procs == {1, 2}

VARIABLES
    fs,                 \* the file system: path -> file
    pc,                 \* where each invocation stands
    argv,               \* the command line of each invocation
    args,               \* the Namespace parse_args returns (line 86)
    params,             \* formant_shift_praat's parameters (lines 19-27)
    snd,                \* line 42
    pitch,              \* line 45
    f0_values,          \* lines 46-47
    orig_pitch_median,  \* line 48
    new_pitch_median,   \* line 49
    shifted,            \* line 52
    y,                  \* lines 64-68
    result,             \* line 88
    stdout,             \* line 97
    err,                \* the exception that ended the run, if one did
    calls,              \* history: the calls made to the collaborators, in order
    envPitch,           \* what "To Pitch" answers this invocation
    envShifted          \* what "Change gender..." answers this invocation

vars == <<fs, pc, argv, args, params, snd, pitch, f0_values, orig_pitch_median,
          new_pitch_median, shifted, y, result, stdout, err, calls, envPitch,
          envShifted>>

None == [k |-> "none"]
NoPath == "None"

\* A command line flag: omitted, or given with a value string.
Omitted == [given |-> FALSE, v |-> <<>>]
Given(v) == [given |-> TRUE, v |-> v]

\* Files.
Audio(rate, values) == [kind |-> "audio", samplerate |-> rate, values |-> values]
Missing == [kind |-> "missing", samplerate |-> 0, values |-> <<>>]
NotAudio == [kind |-> "other", samplerate |-> 0, values |-> <<>>]
\* A file opened for writing and not yet written: truncated.
Truncated == [kind |-> "truncated", samplerate |-> 0, values |-> <<>>]

Paths == {"a.wav", "b.wav", "c.wav", "d.txt"}

\* The disk before any invocation starts.
Disk0 ==
    [f \in Paths |->
        CASE f = "a.wav" -> Audio(22050, <<<<Fin(1, 2), Fin(-1, 2)>>>>)
          [] f = "b.wav" -> Audio(8000, <<<<Fin(1, 4)>>, <<Fin(3, 4)>>>>)
          [] f = "c.wav" -> Missing
          [] f = "d.txt" -> NotAudio]

(***************************************************************************)
(* Command line front end (lines 77-97)                                    *)
(***************************************************************************)
FloatFlags == {"formant_ratio", "pitch_ratio", "duration_ratio", "f0_min", "f0_max"}

\* The default= of lines 81-85.
FlagDefault(f) ==
    CASE f = "formant_ratio"  -> Fin(110, 100)
      [] f = "pitch_ratio"    -> Fin(100, 100)
      [] f = "duration_ratio" -> Fin(100, 100)
      [] f = "f0_min"         -> Fin(75, 1)
      [] f = "f0_max"         -> Fin(500, 1)

\* parse_args with a validation of the values added: ratios must be positive
\* and f0_min below f0_max.
UsageErrorValidating(av) ==
    \/ ~av.input.given
    \/ ~av.output.given
    \/ \E f \in FloatFlags : av[f].given /\ ParseFloat(av[f].v) = ParseError
    \/ \E f \in FloatFlags : av[f].given /\ ~GtZero(ParseFloat(av[f].v))
    \/ /\ av.f0_min.given /\ av.f0_max.given
       /\ Ge(ParseFloat(av.f0_min.v), ParseFloat(av.f0_max.v))

\* parse_args exits with status 2: a required flag is missing (lines 79-80) or
\* float() rejects a value (type=float, lines 81-85).
UsageError(av) ==
    \/ ~av.input.given
    \/ ~av.output.given
    \/ \E f \in FloatFlags : av[f].given /\ ParseFloat(av[f].v) = ParseError

FlagValue(av, f) == IF av[f].given THEN ParseFloat(av[f].v) ELSE FlagDefault(f)

\* The Namespace of line 86.
Namespace(av) ==
    [input          |-> av.input.v,
     output         |-> av.output.v,
     formant_ratio  |-> FlagValue(av, "formant_ratio"),
     pitch_ratio    |-> FlagValue(av, "pitch_ratio"),
     duration_ratio |-> FlagValue(av, "duration_ratio"),
     f0_min         |-> FlagValue(av, "f0_min"),
     f0_max         |-> FlagValue(av, "f0_max")]

\* The keyword arguments of lines 88-96.
CallParams(ns) ==
    [in_wav         |-> ns.input,
     out_wav        |-> ns.output,
     formant_ratio  |-> ns.formant_ratio,
     pitch_ratio    |-> ns.pitch_ratio,
     duration_ratio |-> ns.duration_ratio,
     f0_min         |-> ns.f0_min,
     f0_max         |-> ns.f0_max]

\* Line 86.
ParseArgs(p) ==
    /\ pc[p] = "main"
    /\ IF UsageError(argv[p])
       THEN /\ pc' = [pc EXCEPT ![p] = "usage"]
            /\ UNCHANGED args
       ELSE /\ pc' = [pc EXCEPT ![p] = "call"]
            /\ args' = [args EXCEPT ![p] = Namespace(argv[p])]
    /\ UNCHANGED <<fs, argv, params, snd, pitch, f0_values, orig_pitch_median,
                   new_pitch_median, shifted, y, result, stdout, err, calls,
                   envPitch, envShifted>>

\* Lines 88-96: the call of formant_shift_praat.
Call(p) ==
    /\ pc[p] = "call"
    /\ params' = [params EXCEPT ![p] = CallParams(args[p])]
    /\ calls' = [calls EXCEPT ![p] =
                    Append(@, [fn |-> "formant_shift_praat", kw |-> CallParams(args[p])])]
    /\ pc' = [pc EXCEPT ![p] = "load"]
    /\ UNCHANGED <<fs, argv, args, snd, pitch, f0_values, orig_pitch_median,
                   new_pitch_median, shifted, y, result, stdout, err,
                   envPitch, envShifted>>

(***************************************************************************)
(* formant_shift_praat (lines 42-71).  An exception a collaborator raises  *)
(* is caught nowhere: it ends the run (pc = "failed") and err holds it.    *)
(***************************************************************************)
Raise(p, by, exc) ==
    /\ pc' = [pc EXCEPT ![p] = "failed"]
    /\ err' = [err EXCEPT ![p] = [by |-> by, exc |-> exc]]

\* Line 42 preceded by the creation of the output file.
LoadCreatingOutput(p) ==
    LET f == fs[params[p].in_wav] IN
    /\ pc[p] = "load"
    /\ calls' = [calls EXCEPT ![p] = Append(@, [fn |-> "Sound", path |-> params[p].in_wav])]
    /\ fs' = [fs EXCEPT ![params[p].out_wav] = Truncated]
    /\ IF f.kind = "audio"
       THEN /\ snd' = [snd EXCEPT ![p] =
                          [values |-> f.values, sampling_frequency |-> Fin(f.samplerate, 1)]]
            /\ pc' = [pc EXCEPT ![p] = "pitch"]
            /\ UNCHANGED err
       ELSE /\ Raise(p, "Sound", f.kind)
            /\ UNCHANGED snd
    /\ UNCHANGED <<argv, args, params, pitch, f0_values, orig_pitch_median,
                   new_pitch_median, shifted, y, result, stdout,
                   envPitch, envShifted>>

\* Line 42: parselmouth.Sound(in_wav) reads the file.
Load(p) ==
    LET f == fs[params[p].in_wav] IN
    /\ pc[p] = "load"
    /\ calls' = [calls EXCEPT ![p] = Append(@, [fn |-> "Sound", path |-> params[p].in_wav])]
    /\ IF f.kind = "audio"
       THEN /\ snd' = [snd EXCEPT ![p] =
                          [values |-> f.values, sampling_frequency |-> Fin(f.samplerate, 1)]]
            /\ pc' = [pc EXCEPT ![p] = "pitch"]
            /\ UNCHANGED err
       ELSE /\ Raise(p, "Sound", f.kind)
            /\ UNCHANGED snd
    /\ UNCHANGED <<fs, argv, args, params, pitch, f0_values, orig_pitch_median,
                   new_pitch_median, shifted, y, result, stdout,
                   envPitch, envShifted>>

\* Lines 45-49: pitch analysis and the median of the voiced frames.
ToPitch(p) ==
    LET f0 == MaskSelect(envPitch[p].frequency)
        om == OrigPitchMedian(f0)
    IN
    /\ pc[p] = "pitch"
    /\ calls' = [calls EXCEPT ![p] =
                    Append(@, [fn |-> "To Pitch", snd |-> snd[p], time_step |-> Fin(0, 1),
                               f0_min |-> params[p].f0_min, f0_max |-> params[p].f0_max])]
    /\ IF envPitch[p].ok
       THEN /\ pitch' = [pitch EXCEPT ![p] = [frequency |-> envPitch[p].frequency]]
            /\ f0_values' = [f0_values EXCEPT ![p] = f0]
            /\ orig_pitch_median' = [orig_pitch_median EXCEPT ![p] = om]
            /\ new_pitch_median' =
                   [new_pitch_median EXCEPT ![p] = NewPitchMedian(om, params[p].pitch_ratio)]
            /\ pc' = [pc EXCEPT ![p] = "transform"]
            /\ UNCHANGED err
       ELSE /\ Raise(p, "To Pitch", envPitch[p].error)
            /\ UNCHANGED <<pitch, f0_values, orig_pitch_median, new_pitch_median>>
    /\ UNCHANGED <<fs, argv, args, params, snd, shifted, y, result, stdout,
                   envPitch, envShifted>>

\* The transformer's documented precondition on the search range: it rejects
\* f0_min >= f0_max.  Anything else it may reject is the environment's choice.
RangeRejected(f0_min, f0_max) == Ge(f0_min, f0_max)

\* Lines 52-61 with the transformer's error swallowed: the run goes on with
\* the unmodified waveform.
ChangeGenderRecover(p) ==
    /\ pc[p] = "transform"
    /\ calls' = [calls EXCEPT ![p] =
                    Append(@, [fn |-> "Change gender...", snd |-> snd[p],
                               f0_min |-> params[p].f0_min, f0_max |-> params[p].f0_max,
                               formant_ratio |-> params[p].formant_ratio,
                               new_pitch_median |-> new_pitch_median[p],
                               pitch_range_factor |-> Fin(1, 1),
                               duration_ratio |-> params[p].duration_ratio])]
    /\ shifted' = [shifted EXCEPT ![p] =
                      IF envShifted[p].ok /\ ~RangeRejected(params[p].f0_min, params[p].f0_max)
                      THEN [values |-> envShifted[p].values,
                            sampling_frequency |-> envShifted[p].sampling_frequency]
                      ELSE snd[p]]
    /\ pc' = [pc EXCEPT ![p] = "reshape"]
    /\ UNCHANGED <<fs, argv, args, params, snd, pitch, f0_values, orig_pitch_median,
                   new_pitch_median, y, result, stdout, err, envPitch, envShifted>>

\* Lines 52-61.
ChangeGender(p) ==
    /\ pc[p] = "transform"
    /\ calls' = [calls EXCEPT ![p] =
                    Append(@, [fn |-> "Change gender...", snd |-> snd[p],
                               f0_min |-> params[p].f0_min, f0_max |-> params[p].f0_max,
                               formant_ratio |-> params[p].formant_ratio,
                               new_pitch_median |-> new_pitch_median[p],
                               pitch_range_factor |-> Fin(1, 1),
                               duration_ratio |-> params[p].duration_ratio])]
    /\ IF envShifted[p].ok /\ ~RangeRejected(params[p].f0_min, params[p].f0_max)
       THEN /\ shifted' = [shifted EXCEPT ![p] =
                              [values |-> envShifted[p].values,
                               sampling_frequency |-> envShifted[p].sampling_frequency]]
            /\ pc' = [pc EXCEPT ![p] = "reshape"]
            /\ UNCHANGED err
       ELSE /\ Raise(p, "Change gender...", envShifted[p].error)
            /\ UNCHANGED shifted
    /\ UNCHANGED <<fs, argv, args, params, snd, pitch, f0_values, orig_pitch_median,
                   new_pitch_median, y, result, stdout, envPitch, envShifted>>

\* Lines 64-68.
Reshape(p) ==
    /\ pc[p] = "reshape"
    /\ y' = [y EXCEPT ![p] = ToMono(Transpose(shifted[p].values))]
    /\ pc' = [pc EXCEPT ![p] = "write"]
    /\ UNCHANGED <<fs, argv, args, params, snd, pitch, f0_values, orig_pitch_median,
                   new_pitch_median, shifted, result, stdout, err, calls,
                   envPitch, envShifted>>

\* The sample rate argument of line 70.
WriteRate(sh) == IntOf(sh.sampling_frequency)

\* The channel count soundfile.write derives from the data: 1 for a
\* 1-dimensional array, shape[1] otherwise; 0 stands for the IndexError a
\* 0-dimensional array gives.
WriterChannels(a) ==
    IF NDim(a) = 1 THEN 1 ELSE IF NDim(a) >= 2 THEN a.shape[2] ELSE 0

\* The channels of the file: the frames of the data, by channel.
WriterValues(a) ==
    LET c == WriterChannels(a) IN
    [ch \in 1..c |-> [i \in 1..a.shape[1] |-> a.data[(i - 1) * c + ch]]]

\* A scratch file shared by every invocation instead of out_wav.
WritePathScratch(p) == "d.txt"

\* The file line 70 writes: out_wav.
WritePath(p) == params[p].out_wav

\* Line 70, first half: sf.write(out_wav, y, rate) is called; it opens
\* (truncates) the output file.
Write(p) ==
    /\ pc[p] = "write"
    /\ calls' = [calls EXCEPT ![p] =
                    Append(@, [fn |-> "write", file |-> WritePath(p), data |-> y[p],
                               samplerate |-> WriteRate(shifted[p])])]
    /\ IF WriterChannels(y[p]) = 0
       THEN /\ Raise(p, "write", "IndexError")
            /\ UNCHANGED fs
       ELSE /\ fs' = [fs EXCEPT ![WritePath(p)] = Truncated]
            /\ pc' = [pc EXCEPT ![p] = "writing"]
            /\ UNCHANGED err
    /\ UNCHANGED <<argv, args, params, snd, pitch, f0_values, orig_pitch_median,
                   new_pitch_median, shifted, y, result, stdout,
                   envPitch, envShifted>>

\* Line 70, second half: the samples are written and the file is closed.
WriteClose(p) ==
    /\ pc[p] = "writing"
    /\ fs' = [fs EXCEPT ![WritePath(p)] =
                 Audio(WriteRate(shifted[p]), WriterValues(y[p]))]
    /\ pc' = [pc EXCEPT ![p] = "return"]
    /\ UNCHANGED <<argv, args, params, snd, pitch, f0_values, orig_pitch_median,
                   new_pitch_median, shifted, y, result, stdout, err, calls,
                   envPitch, envShifted>>

\* The return placed before line 70.
ReturnBeforeWrite(p) ==
    /\ pc[p] = "write"
    /\ result' = [result EXCEPT ![p] = params[p].out_wav]
    /\ pc' = [pc EXCEPT ![p] = "print"]
    /\ UNCHANGED <<fs, argv, args, params, snd, pitch, f0_values, orig_pitch_median,
                   new_pitch_median, shifted, y, stdout, err, calls,
                   envPitch, envShifted>>

\* Lines 71 and 88: return out_wav, bound to result.
Return(p) ==
    /\ pc[p] = "return"
    /\ result' = [result EXCEPT ![p] = params[p].out_wav]
    /\ pc' = [pc EXCEPT ![p] = "print"]
    /\ UNCHANGED <<fs, argv, args, params, snd, pitch, f0_values, orig_pitch_median,
                   new_pitch_median, shifted, y, stdout, err, calls,
                   envPitch, envShifted>>

\* Line 97.
PrintResult(p) ==
    /\ pc[p] = "print"
    /\ stdout' = [stdout EXCEPT ![p] = Append(@, <<"Saved to: ", result[p]>>)]
    /\ pc' = [pc EXCEPT ![p] = "exit"]
    /\ UNCHANGED <<fs, argv, args, params, snd, pitch, f0_values, orig_pitch_median,
                   new_pitch_median, shifted, y, result, err, calls,
                   envPitch, envShifted>>

\* The next statement of invocation p.
Step(p) ==
    \/ ParseArgs(p)
    \/ Call(p)
    \/ Load(p)
    \/ ToPitch(p)
    \/ ChangeGender(p)
    \/ Reshape(p)
    \/ Write(p)
    \/ WriteClose(p)
    \/ Return(p)
    \/ PrintResult(p)

Next == \E p \in Procs : Step(p)

(***************************************************************************)
(* Initial states: the command lines and the collaborators' answers are    *)
(* drawn from bounded sets.                                                *)
(***************************************************************************)
Argv(i, o, fr, pr, dr, lo, hi) ==
    [input |-> i, output |-> o, formant_ratio |-> fr, pitch_ratio |-> pr,
     duration_ratio |-> dr, f0_min |-> lo, f0_max |-> hi]

\* input -> output with every optional flag omitted.
PlainArgv(i, o) ==
    Argv(Given(i), Given(o), Omitted, Omitted, Omitted, Omitted, Omitted)

\* The frames a pitch track is made of: unvoiced (0), negative, nan, inf and
\* two voiced frequencies.
TrackValues == {Fin(0, 1), Fin(-50, 1), NaN, PosInf, Fin(100, 1), Fin(400, 1)}

Tracks(n) == UNION {[1..k -> TrackValues] : k \in 0..n}

PitchAnswer(track) == [ok |-> TRUE, error |-> "", frequency |-> track]
PitchRejects == [ok |-> FALSE, error |-> "PraatError: To Pitch", frequency |-> <<>>]

SampleValues == {Fin(-1, 1), Fin(2, 1)}

\* channels x samples, at least one channel.
Waveforms(maxc, maxn) ==
    UNION {[1..c -> [1..n -> SampleValues]] : c \in 1..maxc, n \in 0..maxn}

\* An integral and a non-integral sampling frequency.
Rates == {Fin(16000, 1), Fin(44101, 2)}

ShiftedAnswer(values, rate) ==
    [ok |-> TRUE, error |-> "", values |-> values, sampling_frequency |-> rate]
ShiftedRejects ==
    [ok |-> FALSE, error |-> "PraatError: Change gender", values |-> <<>>,
     sampling_frequency |-> NaN]

OneTrack == <<Fin(100, 1), Fin(0, 1), Fin(400, 1)>>
OneWave == <<<<Fin(-1, 1), Fin(2, 1)>>>>
TwoWave == <<<<Fin(-1, 1), Fin(2, 1)>>, <<Fin(2, 1), Fin(2, 1)>>>>

\* The locals of an invocation that has not run yet.
Fresh ==
    /\ fs = Disk0
    /\ args = [p \in Procs |-> None]
    /\ params = [p \in Procs |-> None]
    /\ snd = [p \in Procs |-> None]
    /\ pitch = [p \in Procs |-> None]
    /\ f0_values = [p \in Procs |-> <<>>]
    /\ orig_pitch_median = [p \in Procs |-> None]
    /\ new_pitch_median = [p \in Procs |-> None]
    /\ shifted = [p \in Procs |-> None]
    /\ y = [p \in Procs |-> None]
    /\ result = [p \in Procs |-> NoPath]
    /\ stdout = [p \in Procs |-> <<>>]
    /\ err = [p \in Procs |-> None]
    /\ calls = [p \in Procs |-> <<>>]

\* One invocation (the first); the second never starts.
Single(avs, eps, ess) ==
    /\ Fresh
    /\ pc = [p \in Procs |-> IF p = 1 THEN "main" ELSE "off"]
    /\ \E av \in avs :
           argv = [p \in Procs |-> IF p = 1 THEN av ELSE PlainArgv("c.wav", "c.wav")]
    /\ \E ep \in eps : envPitch = [p \in Procs |-> IF p = 1 THEN ep ELSE PitchRejects]
    /\ \E es \in ess : envShifted = [p \in Procs |-> IF p = 1 THEN es ELSE ShiftedRejects]

T15 == <<"1", ".", "5">>
T500 == <<"5", "0", "0">>
T75 == <<"7", "5">>

\* Pitch analysis: every track up to MaxFrames frames.
PitchArgv ==
    {Argv(Given(io[1]), Given(io[2]), Omitted, pr, Omitted, b[1], b[2]) :
        io \in {<<"a.wav", "c.wav">>, <<"a.wav", "a.wav">>, <<"c.wav", "a.wav">>},
        pr \in {Omitted, Given(T15)},
        b \in {<<Omitted, Omitted>>, <<Given(T500), Given(T75)>>}}

Init ==
    Single(PitchArgv,
           {PitchAnswer(t) : t \in Tracks(MaxFrames)} \cup {PitchRejects},
           {ShiftedAnswer(OneWave, Fin(16000, 1)), ShiftedRejects})

Spec == Init /\ [][Next]_vars

\* Channel reduction and persistence: every waveform the transformer may
\* answer with, up to MaxChannels x MaxSamples.
InitMono ==
    Single({PlainArgv("a.wav", "c.wav"), PlainArgv("b.wav", "b.wav")},
           {PitchAnswer(OneTrack)},
           {ShiftedAnswer(w, r) : w \in Waveforms(MaxChannels, MaxSamples), r \in Rates}
               \cup {ShiftedRejects})

MonoSpec == InitMono /\ [][Next]_vars

\* The command line: every flag omitted or given, with values float() accepts
\* and values it rejects.
CliArgv ==
    {Argv(i, Given("c.wav"), fr, pr, dr, lo, hi) :
        i \in {Omitted, Given("a.wav")},
        fr \in {Omitted, Given(<<"0", ".", "9">>), Given(<<"-", "1">>)},
        pr \in {Omitted, Given(<<"2">>), Given(<<"x">>)},
        dr \in {Omitted, Given(<<"0">>), Given(<<"1", ".", "5", "0">>)},
        lo \in {Omitted, Given(T500), Given(<<"n", "a", "n">>)},
        hi \in {Omitted, Given(T75), Given(<<"+", "i", "n", "f">>)}}

InitCli ==
    Single(CliArgv, {PitchAnswer(OneTrack)}, {ShiftedAnswer(OneWave, Fin(16000, 1))})

CliSpec == InitCli /\ [][Next]_vars

\* Two invocations running concurrently.
InitConc ==
    /\ Fresh
    /\ pc = [p \in Procs |-> "main"]
    /\ \E o1 \in {"c.wav", "b.wav"}, i2 \in {"b.wav", "c.wav"}, o2 \in {"c.wav", "d.txt"} :
           argv = [p \in Procs |->
                      IF p = 1 THEN PlainArgv("a.wav", o1) ELSE PlainArgv(i2, o2)]
    /\ envPitch = [p \in Procs |-> PitchAnswer(OneTrack)]
    /\ envShifted = [p \in Procs |->
                        IF p = 1 THEN ShiftedAnswer(OneWave, Fin(16000, 1))
                        ELSE ShiftedAnswer(TwoWave, Fin(44101, 2))]

ConcSpec == InitConc /\ [][Next]_vars

(***************************************************************************)
(* Properties                                                              *)
(***************************************************************************)
\* The positions of the calls to fn in an invocation's call history.
CallsTo(p, fn) == {i \in DOMAIN calls[p] : calls[p][i].fn = fn}

\* A pitch track entry that is finite and strictly positive.
FinitePositive(x) == x.k = "fin" /\ x.n > 0

VoicedIdx(track) == {i \in DOMAIN track : FinitePositive(track[i])}

\* The stages after pitch analysis has returned.
AfterPitch == {"transform", "reshape", "write", "writing", "return", "print", "exit"}
\* The stages after the transformer has returned.
AfterTransform == {"reshape", "write", "writing", "return", "print", "exit"}
\* The stages after the file has been written.
AfterWrite == {"return", "print", "exit"}

\* C1: when the pitch track the estimator returns holds no finite, strictly
\* positive entry (an empty track included), the original pitch estimate is
\* exactly 200, the transformer is invoked with target median 200 * pitch_ratio,
\* the run does not fail at the pitch stage (a failure can only be an error
\* raised later by the transformer or the writer), and a run that ends has
\* written the output file and returned out_wav.
C1_FallbackIs200 ==
    \A p \in Procs :
        (pitch[p] # None /\ VoicedIdx(pitch[p].frequency) = {}) =>
            /\ orig_pitch_median[p] = Fin(200, 1)
            /\ new_pitch_median[p] = Mul(Fin(200, 1), params[p].pitch_ratio)
            /\ pc[p] \in AfterPitch \cup {"failed"}
            /\ pc[p] = "failed" => err[p].by \in {"Change gender...", "write"}
            /\ pc[p] # "transform" =>
                   \E i \in CallsTo(p, "Change gender...") :
                       calls[p][i].new_pitch_median = Mul(Fin(200, 1), params[p].pitch_ratio)
            /\ pc[p] = "exit" =>
                   /\ result[p] = params[p].out_wav
                   /\ fs[params[p].out_wav].kind = "audio"
                   /\ CallsTo(p, "write") # {}

\* A run over a non-empty track without voiced frames, with a pitch ratio
\* other than 1, has ended successfully.
C1_Witness ==
    /\ pc[1] = "exit"
    /\ Len(pitch[1].frequency) >= 2
    /\ VoicedIdx(pitch[1].frequency) = {}
    /\ params[1].pitch_ratio = Fin(3, 2)
    /\ new_pitch_median[1] = Fin(300, 1)

\* x is the k-th smallest of the entries of track at the positions I.
IsKth(track, I, x, k) ==
    /\ \E i \in I : track[i] = x
    /\ Cardinality({j \in I : track[j].n * x.d < x.n * track[j].d}) < k
    /\ Cardinality({j \in I : track[j].n * x.d <= x.n * track[j].d}) >= k

\* m is the median of the entries of track at the positions I (I not empty).
IsMedian(track, I, m) ==
    LET n == Cardinality(I) IN
    IF n % 2 = 1 THEN IsKth(track, I, m, (n + 1) \div 2)
    ELSE \E i, j \in I :
            /\ IsKth(track, I, track[i], n \div 2)
            /\ IsKth(track, I, track[j], n \div 2 + 1)
            /\ m.k = "fin"
            /\ 2 * m.n * track[i].d * track[j].d
                   = m.d * (track[i].n * track[j].d + track[j].n * track[i].d)

\* C7: every call of the transformer gets the f0_min and f0_max the pitch
\* estimator got, the caller's formant_ratio and duration_ratio, a pitch range
\* factor of exactly 1, and, when the track has a finite, strictly positive
\* entry, a target median equal to pitch_ratio times the median of exactly
\* those entries.
C7_TargetMedian ==
    \A p \in Procs : \A i \in CallsTo(p, "Change gender...") :
        LET c  == calls[p][i]
            tr == pitch[p].frequency
        IN  /\ \E j \in CallsTo(p, "To Pitch") :
                   /\ j < i
                   /\ calls[p][j].f0_min = c.f0_min
                   /\ calls[p][j].f0_max = c.f0_max
            /\ c.f0_min = args[p].f0_min
            /\ c.f0_max = args[p].f0_max
            /\ c.formant_ratio = args[p].formant_ratio
            /\ c.duration_ratio = args[p].duration_ratio
            /\ c.pitch_range_factor = Fin(1, 1)
            /\ VoicedIdx(tr) # {} =>
                   \E m \in {tr[k] : k \in VoicedIdx(tr)}
                            \cup {DivInt(Add(tr[k], tr[l]), 2) : k, l \in VoicedIdx(tr)} :
                       /\ IsMedian(tr, VoicedIdx(tr), m)
                       /\ c.new_pitch_median = Mul(m, args[p].pitch_ratio)

\* The transformer was called for a track with two different voiced entries
\* and an entry that is excluded, under a pitch ratio of 1.5.
C7_Witness ==
    /\ pc[1] = "exit"
    /\ pitch[1].frequency = <<Fin(400, 1), PosInf, Fin(100, 1)>>
    /\ params[1].pitch_ratio = Fin(3, 2)
    /\ \E i \in CallsTo(1, "Change gender...") :
           calls[1][i].new_pitch_median = Fin(375, 1)

Collaborators == {"Sound", "To Pitch", "Change gender...", "write"}

\* The search range of invocation p is inverted as in f0_min = 500, f0_max = 75.
Inverted(p) == params[p].f0_min = Fin(500, 1) /\ params[p].f0_max = Fin(75, 1)

C4_State ==
    \A p \in Procs :
        /\ (params[p] # None /\ Inverted(p)) =>
               /\ pc[p] \notin AfterTransform
               /\ result[p] = NoPath
               /\ stdout[p] = <<>>
               /\ CallsTo(p, "write") = {}
        /\ (CallsTo(p, "To Pitch") # {} /\ ~envPitch[p].ok) =>
               /\ pc[p] = "failed"
               /\ err[p] = [by |-> "To Pitch", exc |-> envPitch[p].error]
        /\ (CallsTo(p, "Change gender...") # {} /\ (~envShifted[p].ok \/ Inverted(p))) =>
               /\ pc[p] = "failed"
               /\ err[p] = [by |-> "Change gender...", exc |-> envShifted[p].error]
        /\ pc[p] = "failed" =>
               /\ err[p] # None
               /\ err[p].by \in Collaborators
               /\ result[p] = NoPath
               /\ stdout[p] = <<>>
               /\ \A fn \in Collaborators : Cardinality(CallsTo(p, fn)) <= 1

\* The statements of a run in program order; a run that ended stands past them.
StageSeq == <<"main", "call", "load", "pitch", "transform", "reshape", "write",
              "writing", "return", "print">>

StageRank(s) ==
    IF \E i \in DOMAIN StageSeq : StageSeq[i] = s
    THEN CHOOSE i \in DOMAIN StageSeq : StageSeq[i] = s
    ELSE Len(StageSeq) + 1

C4_Step ==
    \A p \in Procs :
        /\ pc[p] = "failed" =>
               /\ pc'[p] = "failed"
               /\ err'[p] = err[p]
               /\ calls'[p] = calls[p]
               /\ result'[p] = NoPath
               /\ fs' = fs
        /\ pc'[p] # pc[p] => StageRank(pc'[p]) > StageRank(pc[p])
        /\ calls'[p] # calls[p] => pc'[p] # pc[p]

\* C4: with f0_min = 500 and f0_max = 75 the run never gets past the
\* transformer, writes nothing and returns nothing; whenever the pitch
\* estimator or the transformer rejects its call the run is in the failure
\* state holding that collaborator's error as raised; a failed run has neither
\* returned nor printed and takes no further step; and every step of a run
\* moves it strictly forward through its statements, with no collaborator
\* called twice, so that no run retries or goes on forever.
C4_RejectionIsFatal == []C4_State /\ [][C4_Step]_vars

\* The run with inverted bounds has failed in the transformer, which the
\* environment would otherwise have let succeed.
C4_Witness ==
    /\ pc[1] = "failed"
    /\ params[1].f0_min = Fin(500, 1)
    /\ params[1].f0_max = Fin(75, 1)
    /\ envShifted[1].ok
    /\ err[1] = [by |-> "Change gender...", exc |-> envShifted[1].error]

\* The names of the collaborators an invocation has called, in order.
FnSeq(cs) == [i \in DOMAIN cs |-> cs[i].fn]

CallOrder == <<"formant_shift_praat", "Sound", "To Pitch", "Change gender...", "write">>

IsPrefix(s, t) == Len(s) <= Len(t) /\ \A i \in 1..Len(s) : s[i] = t[i]

\* The statement-to-statement moves of one invocation.
StageMoves ==
    {<<"main", "call">>, <<"main", "usage">>, <<"call", "load">>,
     <<"load", "pitch">>, <<"load", "failed">>,
     <<"pitch", "transform">>, <<"pitch", "failed">>,
     <<"transform", "reshape">>, <<"transform", "failed">>,
     <<"reshape", "write">>,
     <<"write", "writing">>, <<"write", "failed">>,
     <<"writing", "return">>, <<"return", "print">>, <<"print", "exit">>}

\* C8: every step of an invocation moves it to the next stage of
\* load, analyze pitch, transform, reshape, persist, return (or to failure), so
\* no stage runs twice or out of order; a stage starts with the results of the
\* stages before it; the pitch estimator and the transformer both receive the
\* waveform as loaded; the writer receives the reshaped transformer output;
\* and the output path is returned only once the file has been written.
C8_StageOrder ==
    [][\A p \in Procs :
          pc'[p] # pc[p] =>
              /\ <<pc[p], pc'[p]>> \in StageMoves
              /\ IsPrefix(FnSeq(calls'[p]), CallOrder)
              /\ pc'[p] = "pitch" =>
                     /\ FnSeq(calls'[p]) = SubSeq(CallOrder, 1, 2)
                     /\ snd'[p].values = fs[params[p].in_wav].values
              /\ pc[p] = "pitch" =>
                     /\ FnSeq(calls'[p]) = SubSeq(CallOrder, 1, 3)
                     /\ calls'[p][3].snd = snd[p]
                     /\ snd'[p] = snd[p]
              /\ pc[p] = "transform" =>
                     /\ FnSeq(calls'[p]) = SubSeq(CallOrder, 1, 4)
                     /\ pitch[p] # None
                     /\ calls'[p][4].snd = snd[p]
                     /\ snd[p].values = Disk0[params[p].in_wav].values
                     /\ calls'[p][4].new_pitch_median = new_pitch_median[p]
              /\ pc[p] = "reshape" =>
                     /\ shifted[p] # None
                     /\ y[p] = None /\ y'[p] # None
                     /\ calls'[p] = calls[p]
              /\ pc[p] = "write" =>
                     /\ FnSeq(calls'[p]) = CallOrder
                     /\ calls'[p][5].data = y[p]
                     /\ y[p].data = ToMono(Transpose(shifted[p].values)).data
              /\ pc'[p] = "print" =>
                     /\ result[p] = NoPath
                     /\ result'[p] = params[p].out_wav
                     /\ FnSeq(calls[p]) = CallOrder
                     /\ fs[params[p].out_wav].kind = "audio"
                     /\ fs[params[p].out_wav].values = <<y[p].data>>
              /\ result'[p] # NoPath => pc'[p] \in {"print", "exit"}]_vars

\* An in-place run (output path = input path) has gone through every stage.
C8_Witness ==
    /\ pc[1] = "exit"
    /\ FnSeq(calls[1]) = CallOrder
    /\ params[1].in_wav = params[1].out_wav
    /\ result[1] = params[1].out_wav

\* C10: a run that failed while loading, analysing pitch or transforming has
\* not called the writer and its output path holds what it held before the
\* run; the output path differs from its initial content only once all three
\* stages have succeeded and the writer has been called; and the waveform the
\* run works on is the input as it was before the run, also when the output
\* path is the input path.
C10_FailureLeavesOutput ==
    \A p \in Procs :
        params[p] # None =>
            /\ (pc[p] = "failed" /\ err[p].by \in {"Sound", "To Pitch", "Change gender..."}) =>
                   /\ fs[params[p].out_wav] = Disk0[params[p].out_wav]
                   /\ CallsTo(p, "write") = {}
            /\ fs[params[p].out_wav] # Disk0[params[p].out_wav] =>
                   /\ snd[p] # None /\ pitch[p] # None /\ shifted[p] # None
                   /\ CallsTo(p, "write") # {}
                   /\ pc[p] \in {"writing", "return", "print", "exit"}
            /\ snd[p] # None =>
                   /\ snd[p].values = Disk0[params[p].in_wav].values
                   /\ snd[p].sampling_frequency = Fin(Disk0[params[p].in_wav].samplerate, 1)

\* The transformer has rejected an in-place run over an existing file.
C10_Witness ==
    /\ pc[1] = "failed"
    /\ err[1].by = "Change gender..."
    /\ params[1].in_wav = "a.wav"
    /\ params[1].out_wav = "a.wav"
    /\ fs["a.wav"] = Disk0["a.wav"]

\* C2: the data handed to the file writer is a one-dimensional sequence of as
\* many samples as the transformer's waveform has per channel.
C2_WriterGetsOneDim ==
    \A p \in Procs : \A i \in CallsTo(p, "write") :
        /\ NDim(calls[p][i].data) = 1
        /\ calls[p][i].data.shape[1] = Len(shifted[p].values[1])

\* C3: the sample rate passed to the file writer equals the sampling
\* frequency the transformer reports.
C3_RateAsReported ==
    \A p \in Procs : \A i \in CallsTo(p, "write") :
        Fin(calls[p][i].samplerate, 1) = shifted[p].sampling_frequency

\* C5: for a waveform of C > 1 channels and N samples the mono output has N
\* samples and sample i is the arithmetic mean of the C channels' sample i;
\* for a single channel the output samples are that channel's samples,
\* unchanged; the writer is handed this output.
C5_MeanToMono ==
    \A p \in Procs :
        y[p] # None =>
            LET V == shifted[p].values
                C == Len(V)
                N == Len(V[1])
            IN  /\ C > 1 =>
                       /\ y[p].shape = <<N>>
                       /\ Len(y[p].data) = N
                       /\ \A i \in 1..N :
                              /\ y[p].data[i].k = "fin"
                              /\ Mul(y[p].data[i], Fin(C, 1)) = SumSeq([c \in 1..C |-> V[c][i]])
                /\ C = 1 => y[p].data = V[1]
                /\ \A i \in CallsTo(p, "write") : calls[p][i].data = y[p]

\* A run over a two-channel waveform whose channels differ has ended.
C5_Witness ==
    /\ pc[1] = "exit"
    /\ shifted[1].values = TwoWave
    /\ y[1] = [shape |-> <<2>>, data |-> <<Fin(1, 2), Fin(2, 1)>>]

\* The float each value string of the command lines stands for.
ExpectedFloat(tok) ==
    CASE tok = <<"0", ".", "9">>      -> Fin(9, 10)
      [] tok = <<"-", "1">>           -> Fin(-1, 1)
      [] tok = <<"2">>                -> Fin(2, 1)
      [] tok = <<"0">>                -> Fin(0, 1)
      [] tok = <<"1", ".", "5", "0">> -> Fin(3, 2)
      [] tok = <<"1", ".", "5">>      -> Fin(3, 2)
      [] tok = <<"5", "0", "0">>      -> Fin(500, 1)
      [] tok = <<"7", "5">>           -> Fin(75, 1)
      [] tok = <<"n", "a", "n">>      -> NaN
      [] tok = <<"+", "i", "n", "f">> -> PosInf

\* What formant_shift_praat is to get for flag f of command line av.
Wanted(av, f) ==
    IF av[f].given THEN ExpectedFloat(av[f].v)
    ELSE CASE f = "formant_ratio"  -> Fin(11, 10)
           [] f = "pitch_ratio"    -> Fin(1, 1)
           [] f = "duration_ratio" -> Fin(1, 1)
           [] f = "f0_min"         -> Fin(75, 1)
           [] f = "f0_max"         -> Fin(500, 1)

\* Both paths are given and every value given is a float.
WellFormed(av) ==
    /\ av.input.given
    /\ av.output.given
    /\ \A f \in FloatFlags : av[f].given => av[f].v # <<"x">>

\* C6: the front end calls formant_shift_praat at most once, and exactly once
\* when the command line is well formed; the call gets 1.10, 1.00, 1.00, 75
\* and 500 for the flags omitted and the value given for every other flag;
\* no well-formed command line is rejected by the script, whatever its values
\* (non-positive ratios, f0_min > f0_max): they reach the pitch estimator and
\* the transformer as given, and a run fails only by a collaborator's error.
C6_CliPassThrough ==
    \A p \in Procs :
        LET av == argv[p] IN
        /\ Cardinality(CallsTo(p, "formant_shift_praat")) <= 1
        /\ (WellFormed(av) /\ pc[p] \notin {"main", "call", "off"}) =>
               /\ CallsTo(p, "formant_shift_praat") = {1}
               /\ params[p] = calls[p][1].kw
        /\ WellFormed(av) => pc[p] # "usage"
        /\ pc[p] = "usage" => calls[p] = <<>>
        /\ pc[p] = "failed" => err[p].by \in Collaborators
        /\ \A i \in CallsTo(p, "formant_shift_praat") :
               /\ calls[p][i].kw.in_wav = av.input.v
               /\ calls[p][i].kw.out_wav = av.output.v
               /\ \A f \in FloatFlags : calls[p][i].kw[f] = Wanted(av, f)
        /\ \A i \in CallsTo(p, "To Pitch") :
               /\ calls[p][i].f0_min = Wanted(av, "f0_min")
               /\ calls[p][i].f0_max = Wanted(av, "f0_max")
        /\ \A i \in CallsTo(p, "Change gender...") :
               /\ calls[p][i].f0_min = Wanted(av, "f0_min")
               /\ calls[p][i].f0_max = Wanted(av, "f0_max")
               /\ calls[p][i].formant_ratio = Wanted(av, "formant_ratio")
               /\ calls[p][i].duration_ratio = Wanted(av, "duration_ratio")

\* A command line with a negative formant ratio, a zero duration ratio and
\* inverted bounds, the pitch ratio omitted, has reached the transformer.
C6_Witness ==
    /\ argv[1].formant_ratio = Given(<<"-", "1">>)
    /\ argv[1].duration_ratio = Given(<<"0">>)
    /\ argv[1].f0_min = Given(T500)
    /\ argv[1].f0_max = Given(T75)
    /\ ~argv[1].pitch_ratio.given
    /\ \E i \in CallsTo(1, "Change gender...") :
           /\ calls[1][i].f0_min = Fin(500, 1)
           /\ calls[1][i].formant_ratio = Fin(-1, 1)
           /\ calls[1][i].new_pitch_median = Fin(250, 1)

\* The file invocation p writes when it runs alone.
Alone(p) ==
    IF p = 1 THEN Audio(16000, <<<<Fin(-1, 1), Fin(2, 1)>>>>)
    ELSE Audio(22050, <<<<Fin(1, 2), Fin(2, 1)>>>>)

InPath(p) == argv[p].input.v
OutPath(p) == argv[p].output.v

\* The input and output paths of the two invocations are pairwise distinct.
PathsDistinct == Cardinality({InPath(1), OutPath(1), InPath(2), OutPath(2)}) = 4

C9_State ==
    /\ \A f \in Paths \ {OutPath(1), OutPath(2)} : fs[f] = Disk0[f]
    /\ PathsDistinct =>
           \A p \in Procs :
               /\ pc[p] = "failed" =>
                      /\ Disk0[InPath(p)].kind # "audio"
                      /\ err[p] = [by |-> "Sound", exc |-> Disk0[InPath(p)].kind]
               /\ snd[p] # None => snd[p].values = Disk0[InPath(p)].values
               /\ fs[OutPath(p)] \in {Disk0[OutPath(p)], Truncated, Alone(p)}
               /\ pc[p] \in AfterWrite => fs[OutPath(p)] = Alone(p)
    /\ (OutPath(1) = OutPath(2) /\ \A p \in Procs : pc[p] \in AfterWrite) =>
           fs[OutPath(1)] \in {Alone(1), Alone(2)}

C9_Step ==
    /\ \A f \in Paths :
           fs'[f] # fs[f] =>
               \E p \in Procs :
                   /\ OutPath(p) = f
                   /\ \/ pc[p] = "write" /\ pc'[p] = "writing" /\ fs'[f] = Truncated
                      \/ pc[p] = "writing" /\ pc'[p] = "return" /\ fs'[f] = Alone(p)
    /\ \A p \in Procs : \A q \in Procs \ {p} :
           pc'[p] # pc[p] =>
               /\ pc'[q] = pc[q]
               /\ <<args'[q], params'[q], snd'[q], pitch'[q], f0_values'[q]>>
                      = <<args[q], params[q], snd[q], pitch[q], f0_values[q]>>
               /\ <<orig_pitch_median'[q], new_pitch_median'[q], shifted'[q], y'[q]>>
                      = <<orig_pitch_median[q], new_pitch_median[q], shifted[q], y[q]>>
               /\ <<result'[q], stdout'[q], err'[q], calls'[q]>>
                      = <<result[q], stdout[q], err[q], calls[q]>>

\* C9: a step of one invocation changes nothing of the other but files; when
\* the four paths are pairwise distinct each invocation loads its input as it
\* was (failing only if that input cannot be read) and ends with its output
\* file holding what it writes when run alone, whatever the interleaving; a file changes only when an invocation whose
\* output path it is opens it or writes it, so that when both write the same
\* path the file ends as the one written last.
C9_NoSharedState == []C9_State /\ [][C9_Step]_vars

\* Both invocations, on four distinct paths, have ended, each output file
\* holding what its invocation writes alone.
C9_Witness ==
    /\ PathsDistinct
    /\ \A p \in Procs : pc[p] = "exit" /\ fs[OutPath(p)] = Alone(p)
    /\ fs[OutPath(1)] # fs[OutPath(2)]

\* Both invocations wrote the same path and ended; the file is the first
\* invocation's, which wrote last.
C9_SamePathWitness ==
    /\ OutPath(1) = OutPath(2)
    /\ \A p \in Procs : pc[p] = "exit"
    /\ fs[OutPath(1)] = Alone(1)

=============================================================================
